---- MODULE Spec2Model ----
(***************************************************************************)
(* Cart, order and review aggregates of the e-commerce backend.            *)
(*   Cart   : src/unnamed/part_001  (cartSchema)                           *)
(*   Order  : src/unnamed/part_002  (orderSchema, lines 1-305)             *)
(*   Review : src/unnamed/part_002  (reviewSchema, lines 307-521)          *)
(*   Product: src/unnamed/part_003  (productSchema.methods.updateRating)   *)
(* Money amounts are integers (cents); documents are records.              *)
(***************************************************************************)
EXTENDS Integers, Sequences, FiniteSets, TLC

\* ------------------------------------------------------------------ bounds
\* addItem appends a new line only while the cart has fewer lines than this
MaxLines == 2
\* addItem is taken only while the resulting line quantity stays at most this
MaxLineQty == 2
\* cart calls the visitor makes after logging in (after mergeCarts)
MaxCallsAfterLogin == 1
\* longest statusHistory the order calls are taken up to
MaxHistory == 3
\* orders being created, and the calendar days they are created on
MaxCreators == 3
MaxDay == 2
\* reviews of the product
MaxReviews == 2
\* categories that are ever created
MaxCategories == 3
\* deepest level a category save may produce
MaxLevel == 3
\* saves of stored categories in one run
MaxMoves == 3
\* login requests that may be in flight together
MaxRequests == 2
\* hours the clock runs
MaxTime == 3
\* failed logins in one run
MaxFailed == 6
\* users who vote on one review
MaxVoters == 4

\* ------------------------------------------------------- program constants
\* cartItemSchema.maxQuantity default, and the fallback in addItem
DefaultMaxQuantity == 100
\* incLoginAttempts: this.loginAttempts + 1 >= 5
LockThreshold == 5
\* incLoginAttempts: 2 * 60 * 60 * 1000 ms, in hours
LockHours == 2

\* ------------------------------------------------------------------- state
VARIABLES
  carts,       \* CartIds -> cart document
  loggedIn,    \* the visitor has logged in: the handlers use getByUser
  callsLeft,   \* cart calls the visitor may still make after logging in
  cartError,   \* the error the last cart call raised, "none" when it returned
  addTrack,    \* the last one or two calls, when they were addItem of one product
  lastMerge,   \* what the last call did, when it was mergeCarts: the carts
               \* before it, the cart it returned, what the call before it did
  lastUpdate,  \* the branch the last call took, when it was updateItemQuantity
  order,       \* the order document a handler has loaded
  orderTrack,  \* the last mutator called on it, and whether save() followed
  today,       \* the calendar day new Date() falls on
  storedOrders,\* the documents of the Order collection: creator, day, orderNumber
  creation,    \* Creators -> the new order whose save() is running
  reviews,     \* ReviewIds -> the stored review documents of one product
  productRating, \* the product's stored rating summary {average, count}
  reviewSave,  \* ReviewIds -> the save() running on that review
  reviewDone,  \* the review save() that completed last
  ratingTrack, \* what the save() that wrote the product's rating last had
               \* computed; how many approvals completed, one after another,
               \* after a race (counted up to two)
  categories,  \* CategoryIds -> the stored category documents
  movesLeft,   \* saves of stored categories that may still follow
  userDoc,     \* the stored user document: loginAttempts, lockUntil
  now,         \* Date.now(), in hours
  request,     \* Requests -> a failed-login request and the user it loaded
  loginTrack,  \* failed logins so far, when the fifth came, whether any two
               \* requests overlapped
  helpful,     \* one review's helpful votes: count, users
  helpfulTrack \* the last vote call: the method, its userId, helpful before it

cartVars == <<carts, loggedIn, callsLeft, cartError, addTrack, lastMerge, lastUpdate>>
orderVars == <<order, orderTrack>>
numberVars == <<today, storedOrders, creation>>
reviewVars == <<reviews, productRating, reviewSave, reviewDone, ratingTrack>>

categoryVars == <<categories, movesLeft>>

userVars == <<userDoc, now, request, loginTrack>>

helpfulVars == <<helpful, helpfulTrack>>

vars == <<cartVars, orderVars, numberVars, reviewVars, categoryVars, userVars,
          helpfulVars>>

\* what the calls on one aggregate leave alone
notCart == <<orderVars, numberVars, reviewVars, categoryVars, userVars, helpfulVars>>
notOrder == <<cartVars, numberVars, reviewVars, categoryVars, userVars, helpfulVars>>
notNumber == <<cartVars, orderVars, reviewVars, categoryVars, userVars, helpfulVars>>
notReview == <<cartVars, orderVars, numberVars, categoryVars, userVars, helpfulVars>>
notCategory == <<cartVars, orderVars, numberVars, reviewVars, userVars, helpfulVars>>
notUser == <<cartVars, orderVars, numberVars, reviewVars, categoryVars, helpfulVars>>
notHelpful == <<cartVars, orderVars, numberVars, reviewVars, categoryVars, userVars>>

\* ================================================================== CART ==

CartIds == {"S", "U"}
SessionIds == {"s1"}
UserIds == {"u1"}
GuestUser == "guest"
NoSessionId == "undefined"
NullSessionId == "null"

\* A variant is null or an object {name, option}; fields keeps the key order.
NullVariant == [isNull |-> TRUE, fields |-> <<>>]
VariantL == [isNull |-> FALSE, fields |-> << <<"name", "size">>, <<"option", "L">> >>]

\* Product documents of the catalog as the visitor sees them. (The user's
\* stored cart holds product A at an older price and order limit: a line keeps
\* the price and maxQuantity it was added with.)
ProductA == [_id |-> "A", price |-> 2, maxOrderQuantity |-> 1]
ProductB == [_id |-> "B", price |-> 3, maxOrderQuantity |-> 0]

\* the product and variant arguments the visitor passes to addItem
AddArgs == { <<ProductA, NullVariant>>, <<ProductA, VariantL>>, <<ProductB, NullVariant>> }

\* the quantity arguments callers pass: negative, zero and positive
QtyArgs == {-1, 0, 1, 2}

\* the discount amounts callers pass to applyDiscount
DiscountArgs == {1}

\* item ids (the _id mongoose gives a pushed line). An ObjectId is fresh and
\* unique; the model gives each cart one id per product and variant, which is
\* unique within the cart because addItem and mergeCarts never push a second
\* line of a product and variant the cart already holds (UniqueItemIds).
IdBase(c) == IF c = "S" THEN 0 ELSE 10
KeyIndex(productId, variant) ==
  IF productId = "A" THEN (IF variant.isNull THEN 1 ELSE 2) ELSE 3

\* an id no line has
MissingItemId == 0

\* JSON.stringify of a variant: "null" for null, else the fields in key order
RECURSIVE StringifyFields(_)
StringifyFields(fs) ==
  IF fs = <<>> THEN <<>>
  ELSE <<fs[1][1], ":", fs[1][2]>> \o
       (IF Len(fs) > 1 THEN <<",">> ELSE <<>>) \o StringifyFields(Tail(fs))

JSONstringify(v) ==
  IF v.isNull THEN <<"null">> ELSE <<"{">> \o StringifyFields(v.fields) \o <<"}">>

RECURSIVE SumTotals(_)
SumTotals(items) ==
  IF items = <<>> THEN 0 ELSE items[1].total + SumTotals(Tail(items))

RECURSIVE SumQuantities(_)
SumQuantities(items) ==
  IF items = <<>> THEN 0 ELSE items[1].quantity + SumQuantities(Tail(items))

\* cartSchema.virtual('totalItems')
totalItems(cart) == SumQuantities(cart.items)

\* cartSchema.virtual('uniqueItems')
uniqueItems(cart) == Len(cart.items)

\* items.find(item => item.product === pid && stringify(item.variant) === stringify(variant)):
\* index of the first matching line, 0 when none matches
FindLine(items, pid, variant) ==
  LET hits == { i \in 1..Len(items) :
                  /\ items[i].product = pid
                  /\ JSONstringify(items[i].variant) = JSONstringify(variant) }
  IN IF hits = {} THEN 0 ELSE CHOOSE i \in hits : \A j \in hits : i <= j

\* items.id(itemId): index of the line with that _id, 0 when there is none
LineById(items, itemId) ==
  LET hits == { i \in 1..Len(items) : items[i]._id = itemId }
  IN IF hits = {} THEN 0 ELSE CHOOSE i \in hits : \A j \in hits : i <= j

\* items.pull(itemId)
Pull(items, itemId) == SelectSeq(items, LAMBDA it : it._id # itemId)

\* calculateTotals without the discount term
calculateTotalsNoDiscount(cart) ==
  LET sub == SumTotals(cart.items)
  IN [cart EXCEPT !.subtotal = sub,
                  !.total = sub + cart.tax + cart.shippingCost]

calculateTotals(cart) ==
  LET sub == SumTotals(cart.items)
  IN [cart EXCEPT !.subtotal = sub,
                  !.total = sub + cart.tax + cart.shippingCost - cart.discountAmount]

\* addItem that recomputes an existing line's total from the added quantity only
addItemTotalOfAdded(cart, product, quantity, variant, newId) ==
  LET i == FindLine(cart.items, product._id, variant)
      items2 ==
        IF i # 0
        THEN [cart.items EXCEPT
                ![i].quantity = cart.items[i].quantity + quantity,
                ![i].total = quantity * cart.items[i].price]
        ELSE Append(cart.items,
               [_id |-> newId,
                product |-> product._id,
                quantity |-> quantity,
                price |-> product.price,
                total |-> quantity * product.price,
                variant |-> variant,
                maxQuantity |-> IF product.maxOrderQuantity # 0
                                THEN product.maxOrderQuantity
                                ELSE DefaultMaxQuantity])
  IN calculateTotals([cart EXCEPT !.items = items2])

addItem(cart, product, quantity, variant, newId) ==
  LET i == FindLine(cart.items, product._id, variant)
      items2 ==
        IF i # 0
        THEN [cart.items EXCEPT
                ![i].quantity = cart.items[i].quantity + quantity,
                ![i].total = (cart.items[i].quantity + quantity) * cart.items[i].price]
        ELSE Append(cart.items,
               [_id |-> newId,
                product |-> product._id,
                quantity |-> quantity,
                price |-> product.price,
                total |-> quantity * product.price,
                variant |-> variant,
                maxQuantity |-> IF product.maxOrderQuantity # 0
                                THEN product.maxOrderQuantity
                                ELSE DefaultMaxQuantity])
  IN calculateTotals([cart EXCEPT !.items = items2])

Min(a, b) == IF a <= b THEN a ELSE b

\* Math.max
Max(a, b) == IF a >= b THEN a ELSE b

\* updateItemQuantity that removes the line only below zero
updateItemQuantityRemovesBelowZero(cart, itemId, quantity) ==
  LET i == LineById(cart.items, itemId)
      items2 ==
        IF quantity < 0
        THEN Pull(cart.items, itemId)
        ELSE [cart.items EXCEPT
                ![i].quantity = Min(quantity, cart.items[i].maxQuantity),
                ![i].total = Min(quantity, cart.items[i].maxQuantity) * cart.items[i].price]
  IN calculateTotals([cart EXCEPT !.items = items2])

\* updateItemQuantity that takes the quantity as passed
updateItemQuantityNoClamp(cart, itemId, quantity) ==
  LET i == LineById(cart.items, itemId)
      items2 ==
        IF quantity <= 0
        THEN Pull(cart.items, itemId)
        ELSE [cart.items EXCEPT
                ![i].quantity = quantity,
                ![i].total = quantity * cart.items[i].price]
  IN calculateTotals([cart EXCEPT !.items = items2])

\* the branch of updateItemQuantity taken when the line exists
updateItemQuantity(cart, itemId, quantity) ==
  LET i == LineById(cart.items, itemId)
      items2 ==
        IF quantity <= 0
        THEN Pull(cart.items, itemId)
        ELSE [cart.items EXCEPT
                ![i].quantity = Min(quantity, cart.items[i].maxQuantity),
                ![i].total = Min(quantity, cart.items[i].maxQuantity) * cart.items[i].price]
  IN calculateTotals([cart EXCEPT !.items = items2])

removeItem(cart, itemId) ==
  calculateTotals([cart EXCEPT !.items = Pull(cart.items, itemId)])

clear(cart) == calculateTotals([cart EXCEPT !.items = <<>>])

applyDiscount(cart, amount) ==
  calculateTotals([cart EXCEPT !.discountAmount = amount, !.discountValid = TRUE])

removeDiscount(cart) ==
  calculateTotals([cart EXCEPT !.discountAmount = 0, !.discountValid = FALSE])

\* the loop of mergeCarts re-pricing a merged line at the session line's price
RECURSIVE MergeItemsSessionPrice(_, _)
MergeItemsSessionPrice(userItems, sessionItems) ==
  IF sessionItems = <<>> THEN userItems
  ELSE LET s == sessionItems[1]
           i == FindLine(userItems, s.product, s.variant)
           merged ==
             IF i # 0
             THEN [userItems EXCEPT
                     ![i].quantity = userItems[i].quantity + s.quantity,
                     ![i].total = (userItems[i].quantity + s.quantity) * s.price]
             ELSE Append(userItems, s)
       IN MergeItemsSessionPrice(merged, Tail(sessionItems))

\* the loop of mergeCarts: each session line is added to the first equivalent
\* user line, or pushed as it is
RECURSIVE MergeItems(_, _)
MergeItems(userItems, sessionItems) ==
  IF sessionItems = <<>> THEN userItems
  ELSE LET s == sessionItems[1]
           i == FindLine(userItems, s.product, s.variant)
           merged ==
             IF i # 0
             THEN [userItems EXCEPT
                     ![i].quantity = userItems[i].quantity + s.quantity,
                     ![i].total = (userItems[i].quantity + s.quantity) * userItems[i].price]
             ELSE Append(userItems, s)
       IN MergeItems(merged, Tail(sessionItems))

\* the branch of mergeCarts taken when the user has no cart, leaving sessionId set
adoptCartKeepsSession(cart, userId) ==
  calculateTotals([cart EXCEPT !.user = userId])

\* the branch of mergeCarts taken when the user has no cart: the session cart is
\* reassigned and saved
adoptCart(cart, userId) ==
  calculateTotals([cart EXCEPT !.user = userId, !.sessionId = NullSessionId])

\* the validators of cartItemSchema and cartSchema, run by save()
SchemaValid(cart) ==
  /\ \A i \in 1..Len(cart.items) :
        /\ cart.items[i].quantity >= 1
        /\ cart.items[i].price >= 0
        /\ cart.items[i].total >= 0
  /\ cart.subtotal >= 0
  /\ cart.tax >= 0
  /\ cart.shippingCost >= 0
  /\ cart.discountAmount >= 0
  /\ cart.total >= 0

NewCart(exists, user, sessionId, tax, shippingCost) ==
  [exists |-> exists, user |-> user, sessionId |-> sessionId, isActive |-> TRUE,
   items |-> <<>>, subtotal |-> 0, tax |-> tax, shippingCost |-> shippingCost,
   discountAmount |-> 0, discountValid |-> FALSE, total |-> 0]

NoTrack == [stage |-> 0, cart |-> "S", product |-> "A", price |-> 0,
            variant |-> NullVariant, q1 |-> 0, q2 |-> 0]

NoMerge == [kind |-> "none", session |-> "S", user |-> "S",
            before |-> [c \in CartIds |-> NewCart(FALSE, GuestUser, NoSessionId, 0, 0)],
            after |-> "none", returned |-> "null"]

\* The user's cart when the visitor arrives: none, or one that earlier addItem /
\* applyDiscount calls built and save() stored.
UserCartChoices ==
  LET e == calculateTotals(NewCart(TRUE, "u1", NoSessionId, 1, 2))
      pA2 == ProductA
      pA3 == [ProductA EXCEPT !.price = 3, !.maxOrderQuantity = 3]
      pB == ProductB
  IN { NewCart(FALSE, "u1", NoSessionId, 0, 0),
       e,
       addItem(addItem(e, pA3, 2, NullVariant, 11), pB, 1, NullVariant, 13),
       applyDiscount(addItem(e, pA2, 1, VariantL, 12), 1) }

\* The session cart as first saved: the pre-save hook has computed the totals.
StartCarts(u) ==
  [c \in CartIds |->
     IF c = "S" THEN calculateTotals(NewCart(TRUE, GuestUser, "s1", 1, 2)) ELSE u]

\* a variant of getBySession that also matches deactivated carts
getBySessionAnyState(sessionId) ==
  { c \in CartIds : carts[c].exists /\ carts[c].sessionId = sessionId }

\* findOne({sessionId, isActive: true}): the set of carts the query matches
getBySession(sessionId) ==
  { c \in CartIds : carts[c].exists /\ carts[c].isActive /\ carts[c].sessionId = sessionId }

\* findOne({user: userId, isActive: true})
getByUser(userId) ==
  { c \in CartIds : carts[c].exists /\ carts[c].isActive /\ carts[c].user = userId }

\* The handlers reach the visitor's cart through getBySession before the login
\* and through getByUser after it.
Loaded(c) ==
  /\ c \in (IF loggedIn THEN getByUser("u1") ELSE getBySession("s1"))
  /\ loggedIn => callsLeft > 0

Called == callsLeft' = IF loggedIn THEN callsLeft - 1 ELSE callsLeft

\* the itemId arguments callers pass: the ids of the cart's lines and an id no
\* line has
ItemIdArgs(c) == { carts[c].items[i]._id : i \in 1..Len(carts[c].items) } \cup {MissingItemId}

\* the id of a line addItem pushes to the cart
NewItemId(c, product, variant) == IdBase(c) + KeyIndex(product._id, variant)

\* no two lines of a cart share an _id
UniqueItemIds ==
  \A c \in CartIds : \A i, j \in 1..Len(carts[c].items) :
    carts[c].items[i]._id = carts[c].items[j]._id => i = j

AddItem(c, product, quantity, variant) ==
  /\ Loaded(c)
  /\ LET i == FindLine(carts[c].items, product._id, variant)
         hadProduct == \E k \in 1..Len(carts[c].items) :
                          carts[c].items[k].product = product._id
     IN /\ IF i = 0 THEN Len(carts[c].items) < MaxLines
                    ELSE /\ carts[c].items[i].quantity + quantity <= MaxLineQty
                         /\ carts[c].items[i].quantity + quantity >= -1
        /\ carts' = [carts EXCEPT ![c] = addItem(carts[c], product, quantity, variant, NewItemId(c, product, variant))]
        /\ addTrack' =
             IF /\ addTrack.stage = 1 /\ addTrack.cart = c
                /\ addTrack.product = product._id /\ addTrack.price = product.price
                /\ addTrack.variant = variant
             THEN [addTrack EXCEPT !.stage = 2, !.q2 = quantity]
             ELSE IF ~hadProduct
             THEN [stage |-> 1, cart |-> c, product |-> product._id,
                   price |-> product.price, variant |-> variant,
                   q1 |-> quantity, q2 |-> 0]
             ELSE NoTrack
  /\ cartError' = "none"
  /\ lastMerge' = NoMerge
  /\ lastUpdate' = "none"
  /\ Called /\ UNCHANGED <<loggedIn, notCart>>

\* updateItemQuantity that returns the cart as it is when no line matches
UpdateItemQuantityIgnoresMissing(c, itemId, quantity) ==
  /\ Loaded(c)
  /\ cartError' = "none"
  /\ IF LineById(carts[c].items, itemId) = 0
     THEN /\ lastUpdate' = "missing"
          /\ UNCHANGED carts
     ELSE /\ lastUpdate' =
               IF quantity <= 0 THEN "removed"
               ELSE IF quantity > carts[c].items[LineById(carts[c].items, itemId)].maxQuantity
               THEN "clamped" ELSE "set"
          /\ carts' = [carts EXCEPT ![c] = updateItemQuantity(carts[c], itemId, quantity)]
  /\ addTrack' = NoTrack
  /\ lastMerge' = NoMerge
  /\ Called /\ UNCHANGED <<loggedIn, notCart>>

UpdateItemQuantity(c, itemId, quantity) ==
  /\ Loaded(c)
  /\ IF LineById(carts[c].items, itemId) = 0
     THEN /\ cartError' = "Item not found in cart"
          /\ lastUpdate' = "missing"
          /\ UNCHANGED carts
     ELSE /\ cartError' = "none"
          /\ lastUpdate' =
               IF quantity <= 0 THEN "removed"
               ELSE IF quantity > carts[c].items[LineById(carts[c].items, itemId)].maxQuantity
               THEN "clamped" ELSE "set"
          /\ carts' = [carts EXCEPT ![c] = updateItemQuantity(carts[c], itemId, quantity)]
  /\ addTrack' = NoTrack
  /\ lastMerge' = NoMerge
  /\ Called /\ UNCHANGED <<loggedIn, notCart>>

RemoveItem(c, itemId) ==
  /\ Loaded(c)
  /\ carts' = [carts EXCEPT ![c] = removeItem(carts[c], itemId)]
  /\ cartError' = "none"
  /\ addTrack' = NoTrack
  /\ lastMerge' = NoMerge
  /\ lastUpdate' = "none"
  /\ Called /\ UNCHANGED <<loggedIn, notCart>>

Clear(c) ==
  /\ Loaded(c)
  /\ carts' = [carts EXCEPT ![c] = clear(carts[c])]
  /\ cartError' = "none"
  /\ addTrack' = NoTrack
  /\ lastMerge' = NoMerge
  /\ lastUpdate' = "none"
  /\ Called /\ UNCHANGED <<loggedIn, notCart>>

ApplyDiscount(c, amount) ==
  /\ Loaded(c)
  /\ carts' = [carts EXCEPT ![c] = applyDiscount(carts[c], amount)]
  /\ cartError' = "none"
  /\ addTrack' = NoTrack
  /\ lastMerge' = NoMerge
  /\ lastUpdate' = "none"
  /\ Called /\ UNCHANGED <<loggedIn, notCart>>

RemoveDiscount(c) ==
  /\ Loaded(c)
  /\ carts' = [carts EXCEPT ![c] = removeDiscount(carts[c])]
  /\ cartError' = "none"
  /\ addTrack' = NoTrack
  /\ lastMerge' = NoMerge
  /\ lastUpdate' = "none"
  /\ Called /\ UNCHANGED <<loggedIn, notCart>>

\* mergeCarts reads both carts from the store, where only documents that passed
\* the schema validators are kept.
MergeCarts(sessionId, userId) ==
  LET found == getBySession(sessionId)
      owned == getByUser(userId)
  IN /\ \A c \in found \cup owned : SchemaValid(carts[c])
     /\ IF found = {}
        THEN /\ UNCHANGED carts
             /\ lastMerge' = [NoMerge EXCEPT
                  !.kind = "noSession",
                  !.before = carts,
                  !.after = lastMerge.kind,
                  !.returned = IF owned = {} THEN "null" ELSE CHOOSE c \in owned : TRUE]
        ELSE LET sc == CHOOSE c \in found : TRUE
             IN IF owned = {}
                THEN /\ carts' = [carts EXCEPT ![sc] = adoptCart(carts[sc], userId)]
                     /\ lastMerge' = [kind |-> "adopted", session |-> sc, user |-> sc,
                                      before |-> carts, after |-> lastMerge.kind,
                                      returned |-> sc]
                ELSE LET uc == CHOOSE c \in owned : TRUE
                     IN /\ carts' = [carts EXCEPT
                              ![sc] = calculateTotals([carts[sc] EXCEPT !.isActive = FALSE]),
                              ![uc] = calculateTotals([carts[uc] EXCEPT
                                        !.items = MergeItems(carts[uc].items, carts[sc].items)])]
                        /\ lastMerge' = [kind |-> "merged", session |-> sc, user |-> uc,
                                         before |-> carts, after |-> lastMerge.kind,
                                         returned |-> uc]
     /\ cartError' = "none"
     /\ addTrack' = NoTrack
     /\ lastUpdate' = "none"
     /\ loggedIn' = TRUE
     /\ UNCHANGED <<callsLeft, notCart>>

NextCart ==
  \/ \E c \in CartIds, a \in AddArgs, q \in QtyArgs : AddItem(c, a[1], q, a[2])
  \/ \E c \in CartIds, q \in QtyArgs : \E id \in ItemIdArgs(c) : UpdateItemQuantity(c, id, q)
  \/ \E c \in CartIds : \E id \in ItemIdArgs(c) : RemoveItem(c, id)
  \/ \E c \in CartIds : Clear(c)
  \/ \E c \in CartIds, a \in DiscountArgs : ApplyDiscount(c, a)
  \/ \E c \in CartIds : RemoveDiscount(c)
  \/ \E s \in SessionIds, u \in UserIds : MergeCarts(s, u)

\* ----------------------------------------------------------- cart claims

\* product and variant of a line
LineKey(l) == <<l.product, l.variant>>

\* C1: in every cart, subtotal is the sum of the lines' totals and total is
\* subtotal + tax + shipping.cost - discount.amount.
C1_TotalsRecomputed ==
  \A c \in CartIds :
    carts[c].exists =>
      /\ carts[c].subtotal = SumTotals(carts[c].items)
      /\ carts[c].total = carts[c].subtotal + carts[c].tax + carts[c].shippingCost
                            - carts[c].discountAmount

\* the session cart holds two lines, charges and a discount, after addItem and
\* applyDiscount calls
C1_Witness ==
  /\ ~loggedIn
  /\ Len(carts["S"].items) = 2
  /\ carts["S"].subtotal > 0
  /\ carts["S"].tax > 0
  /\ carts["S"].shippingCost > 0
  /\ carts["S"].discountAmount > 0

\* C2: addItem(P, q1) then addItem(P, q2) with the same variant, on a cart that
\* had no line for P, leaves exactly one line for P, of quantity q1 + q2 and
\* total (q1 + q2) * P.price.
C2_AddTwiceOneLine ==
  addTrack.stage = 2 =>
    LET items == carts[addTrack.cart].items
        ofP == { i \in 1..Len(items) : items[i].product = addTrack.product }
    IN /\ Cardinality(ofP) = 1
       /\ \A i \in ofP :
            /\ items[i].quantity = addTrack.q1 + addTrack.q2
            /\ items[i].total = (addTrack.q1 + addTrack.q2) * addTrack.price
            /\ items[i].variant = addTrack.variant

\* two positive addItem calls with the default variant null have been made
C2_Witness ==
  /\ addTrack.stage = 2
  /\ addTrack.variant = NullVariant
  /\ addTrack.q1 > 0
  /\ addTrack.q2 > 0

\* C3: mergeCarts with both carts present: a session line equivalent to a user
\* line is summed into it (one line stays, total at the user line's price),
\* every other session line is appended as it is, and the user cart's
\* totalItems is the sum of both carts' totalItems.
C3_MergeSumsAndAppends ==
  lastMerge.kind = "merged" =>
    LET s == lastMerge.before[lastMerge.session].items
        u == lastMerge.before[lastMerge.user].items
        r == carts[lastMerge.user].items
        inUser(l) == \E i \in 1..Len(u) : LineKey(u[i]) = LineKey(l)
        partner(l) == { j \in 1..Len(s) : LineKey(s[j]) = LineKey(l) }
    IN /\ Len(r) = Len(u) + Cardinality({ j \in 1..Len(s) : ~inUser(s[j]) })
       /\ \A i \in 1..Len(u) :
            IF partner(u[i]) = {} THEN r[i] = u[i]
            ELSE \E j \in partner(u[i]) :
                   r[i] = [u[i] EXCEPT
                             !.quantity = u[i].quantity + s[j].quantity,
                             !.total = (u[i].quantity + s[j].quantity) * u[i].price]
       /\ \A j \in 1..Len(s) :
            inUser(s[j]) =>
              Cardinality({ i \in 1..Len(r) : LineKey(r[i]) = LineKey(s[j]) }) = 1
       /\ SubSeq(r, Len(u) + 1, Len(r)) = SelectSeq(s, LAMBDA l : ~inUser(l))
       /\ totalItems(carts[lastMerge.user])
            = totalItems(lastMerge.before[lastMerge.user])
              + totalItems(lastMerge.before[lastMerge.session])

\* a merge in which one session line met a user line of another price and
\* another session line was appended
C3_Witness ==
  /\ lastMerge.kind = "merged"
  /\ LET s == lastMerge.before[lastMerge.session].items
         u == lastMerge.before[lastMerge.user].items
     IN /\ \E j \in 1..Len(s), i \in 1..Len(u) :
             LineKey(s[j]) = LineKey(u[i]) /\ s[j].price # u[i].price
        /\ \E j \in 1..Len(s) : \A i \in 1..Len(u) : LineKey(s[j]) # LineKey(u[i])

\* C4: mergeCarts with a session cart and no user cart returns the session cart
\* with user = userId and sessionId cleared, its lines unchanged, and creates
\* or changes no other cart.
C4_AdoptSessionCart ==
  lastMerge.kind = "adopted" =>
    LET sc == lastMerge.session
    IN /\ carts[sc] = [lastMerge.before[sc] EXCEPT !.user = "u1",
                                                   !.sessionId = NullSessionId]
       /\ carts[sc].items = lastMerge.before[sc].items
       /\ carts[sc].isActive
       /\ \A c \in CartIds \ {sc} : carts[c] = lastMerge.before[c]

\* a session cart with lines has been handed to the user
C4_Witness ==
  /\ lastMerge.kind = "adopted"
  /\ Len(carts[lastMerge.session].items) > 0
  /\ lastMerge.before[lastMerge.session].sessionId = "s1"
  /\ ~carts["U"].exists

\* C17: updateItemQuantity with an itemId that matches no line raises 'Item not
\* found in cart' and leaves items, subtotal and total as they were; no other
\* cart mutation raises.
C17_MissingItemRaises ==
  [][/\ lastUpdate' = "missing" =>
          \A c \in CartIds, q \in QtyArgs : \A id \in ItemIdArgs(c) :
            (/\ LineById(carts[c].items, id) = 0
             /\ UpdateItemQuantity(c, id, q)) =>
              /\ cartError' = "Item not found in cart"
              /\ carts'[c].items = carts[c].items
              /\ carts'[c].subtotal = carts[c].subtotal
              /\ carts'[c].total = carts[c].total
     /\ cartError' # "none" =>
          \E c \in CartIds, q \in QtyArgs : \E id \in ItemIdArgs(c) :
            /\ LineById(carts[c].items, id) = 0
            /\ UpdateItemQuantity(c, id, q)]_vars

\* the call raised on a cart that has lines
C17_Witness ==
  /\ lastUpdate = "missing"
  /\ cartError = "Item not found in cart"
  /\ \E c \in CartIds :
       /\ c \in (IF loggedIn THEN getByUser("u1") ELSE getBySession("s1"))
       /\ Len(carts[c].items) >= 1

\* C18: updateItemQuantity on an existing line with quantity <= 0 removes
\* exactly that line: uniqueItems decreases by 1, the other lines are unchanged
\* and the totals are recomputed without the line.
C18_NonPositiveRemovesLine ==
  [][lastUpdate' = "removed" =>
      \A c \in CartIds, q \in QtyArgs : \A id \in ItemIdArgs(c) :
       (/\ q <= 0
        /\ LineById(carts[c].items, id) # 0
        /\ UpdateItemQuantity(c, id, q)) =>
         LET items == carts[c].items
             i == LineById(items, id)
         IN /\ uniqueItems(carts'[c]) = uniqueItems(carts[c]) - 1
            /\ carts'[c].items = SubSeq(items, 1, i - 1) \o SubSeq(items, i + 1, Len(items))
            /\ carts'[c].subtotal = SumTotals(items) - items[i].total
            /\ carts'[c].total = carts'[c].subtotal + carts[c].tax + carts[c].shippingCost
                                   - carts[c].discountAmount]_vars

\* a line was removed by quantity <= 0 from a cart that keeps another line
C18_Witness ==
  /\ lastUpdate = "removed"
  /\ \E c \in CartIds :
       /\ c \in (IF loggedIn THEN getByUser("u1") ELSE getBySession("s1"))
       /\ Len(carts[c].items) >= 1

\* C19: updateItemQuantity on an existing line with quantity > 0 sets the
\* line's quantity to min(quantity, maxQuantity) and its total to that quantity
\* times the line's price; the price and every other line are unchanged.
C19_PositiveSetsClampedQuantity ==
  [][lastUpdate' \in {"set", "clamped"} =>
      \A c \in CartIds, q \in QtyArgs : \A id \in ItemIdArgs(c) :
       (/\ q > 0
        /\ LineById(carts[c].items, id) # 0
        /\ UpdateItemQuantity(c, id, q)) =>
         LET items == carts[c].items
             i == LineById(items, id)
             m == IF q <= items[i].maxQuantity THEN q ELSE items[i].maxQuantity
         IN carts'[c].items = [items EXCEPT ![i].quantity = m,
                                            ![i].total = m * items[i].price]]_vars

\* the quantity passed was above the line's maxQuantity and the line, one of
\* two, sits at maxQuantity
C19_Witness ==
  /\ lastUpdate = "clamped"
  /\ \E c \in CartIds :
       /\ c \in (IF loggedIn THEN getByUser("u1") ELSE getBySession("s1"))
       /\ Len(carts[c].items) >= 2
       /\ \E i \in 1..Len(carts[c].items) :
            /\ carts[c].items[i].quantity = carts[c].items[i].maxQuantity
            /\ carts[c].items[i].total = carts[c].items[i].maxQuantity * carts[c].items[i].price

\* C20: every line of every cart has quantity >= 1, whatever quantities the
\* callers pass.
C20_QuantityAtLeastOne ==
  \A c \in CartIds :
    carts[c].exists =>
      \A i \in 1..Len(carts[c].items) : carts[c].items[i].quantity >= 1

\* the quantities of a cart's lines, in order
Quantities(cart) == [i \in 1..Len(cart.items) |-> cart.items[i].quantity]

\* C21: after mergeCarts merged an active session cart into the user cart, the
\* session cart is still stored with isActive = false; a second mergeCarts with
\* the same arguments finds no active session cart and returns the user cart
\* with every line quantity unchanged (session lines are not added twice).
C21_SecondMergeAddsNothing ==
  /\ lastMerge.kind = "merged" =>
       /\ carts[lastMerge.session].exists
       /\ ~carts[lastMerge.session].isActive
       /\ lastMerge.after # "merged"
  /\ (lastMerge.after = "merged" /\ lastMerge.kind # "none") =>
       /\ lastMerge.kind = "noSession"
       /\ carts["S"].exists
       /\ ~carts["S"].isActive
       /\ lastMerge.returned = "U"
       /\ Quantities(carts["U"]) = Quantities(lastMerge.before["U"])
       /\ carts = lastMerge.before

\* a merge that added session quantities to user lines was followed by a
\* second mergeCarts
C21_Witness ==
  /\ lastMerge.kind = "noSession"
  /\ lastMerge.after = "merged"
  /\ Len(carts["S"].items) >= 1
  /\ Len(carts["U"].items) >= 2
  /\ \E j \in 1..Len(carts["S"].items), i \in 1..Len(carts["U"].items) :
       /\ LineKey(carts["S"].items[j]) = LineKey(carts["U"].items[i])
       /\ carts["U"].items[i].quantity > carts["S"].items[j].quantity

\* C24: every line of a cart has quantity <= maxQuantity after any sequence
\* of addItem, updateItemQuantity and mergeCarts calls, the lines having
\* started with quantity <= maxQuantity.
C24_QuantityAtMostMax ==
  \A c \in CartIds :
    carts[c].exists =>
      \A i \in 1..Len(carts[c].items) :
        carts[c].items[i].quantity <= carts[c].items[i].maxQuantity

\* ================================================================= ORDER ==


OrderStatuses ==
  {"pending", "confirmed", "processing", "shipped", "delivered", "cancelled", "refunded"}

\* the user who placed the order (this.user) and the admin who updates it
OrderOwner == "owner"
Admins == {"admin"}
Notes == {"", "note"}
Reasons == {"damaged"}

\* refund amounts callers pass, around the order total of InitOrder
RefundAmounts == {2, 4, 5}

\* orderSchema.virtual('canBeCancelled')
canBeCancelled(o) == o.status \in {"pending", "confirmed", "processing"}

\* orderSchema.virtual('canBeRefunded')
canBeRefunded(o) == o.paymentStatus = "paid" /\ o.status = "delivered"

\* updateStatus as a guarded state machine would have it: a final status is kept
updateStatusGuarded(o, newStatus, note, updatedBy) ==
  IF o.status \in {"cancelled", "refunded"} THEN o
  ELSE [o EXCEPT
          !.status = newStatus,
          !.statusHistory = Append(o.statusHistory,
             [status |-> newStatus, note |-> note, updatedBy |-> updatedBy])]

updateStatus(o, newStatus, note, updatedBy) ==
  [o EXCEPT
     !.status = newStatus,
     !.statusHistory = Append(o.statusHistory,
        [status |-> newStatus, note |-> note, updatedBy |-> updatedBy])]

\* processRefund with the comparison amount > total
processRefundStrict(o, amount, reason, processedBy) ==
  [o EXCEPT
     !.refund = [amount |-> amount, reason |-> reason, processedBy |-> processedBy],
     !.paymentStatus = IF amount > o.total THEN "refunded" ELSE "partially_refunded",
     !.status = "refunded"]

processRefund(o, amount, reason, processedBy) ==
  [o EXCEPT
     !.refund = [amount |-> amount, reason |-> reason, processedBy |-> processedBy],
     !.paymentStatus = IF amount >= o.total THEN "refunded" ELSE "partially_refunded",
     !.status = "refunded"]

\* pre('save') "Track status history": one more entry when status is modified
statusHistoryHook(o) ==
  IF o.statusModified
  THEN [o EXCEPT !.statusHistory = Append(o.statusHistory,
          [status |-> o.status, note |-> "undefined", updatedBy |-> OrderOwner])]
  ELSE o

\* isModified('status') after the assignment this.status = newStatus: an equal
\* value marks nothing, a changed value marks the path; a value changed back to
\* the saved one is marked or unmarked, depending on the mongoose release
ModifiedAfterSet(o, newStatus) ==
  IF newStatus = o.status THEN {o.statusModified}
  ELSE IF newStatus = o.savedStatus THEN {TRUE, FALSE}
  ELSE {TRUE}

NoRefund == [amount |-> 0, reason |-> "undefined", processedBy |-> "undefined"]

NoOrderCall == [op |-> "none", from |-> "pending", histBefore |-> <<>>,
                newStatus |-> "pending", note |-> "", by |-> "undefined",
                amount |-> 0, reason |-> "undefined", saved |-> FALSE]

\* A stored order: placed (pending) and paid or not; its status was a default,
\* so the hook logged nothing at creation.
NewOrder(pay) ==
  [status |-> "pending", paymentStatus |-> pay, total |-> 4,
   statusHistory |-> <<>>, refund |-> NoRefund,
   statusModified |-> FALSE, savedStatus |-> "pending"]

UpdateStatus(newStatus, note, updatedBy) ==
  /\ Len(order.statusHistory) < MaxHistory
  /\ \E m \in ModifiedAfterSet(order, newStatus) :
       order' = [updateStatus(order, newStatus, note, updatedBy) EXCEPT !.statusModified = m]
  /\ orderTrack' = [NoOrderCall EXCEPT
                      !.op = "updateStatus", !.from = order.status,
                      !.histBefore = order.statusHistory,
                      !.newStatus = newStatus, !.note = note, !.by = updatedBy]
  /\ UNCHANGED notOrder

ProcessRefund(amount, reason, processedBy) ==
  /\ \E m \in ModifiedAfterSet(order, "refunded") :
       order' = [processRefund(order, amount, reason, processedBy) EXCEPT !.statusModified = m]
  /\ orderTrack' = [NoOrderCall EXCEPT
                      !.op = "processRefund", !.from = order.status,
                      !.histBefore = order.statusHistory,
                      !.newStatus = "refunded", !.by = processedBy,
                      !.amount = amount, !.reason = reason]
  /\ UNCHANGED notOrder

\* save(): the pre-save hooks run, the document is written, modified paths reset
SaveOrder ==
  /\ order.statusModified => Len(order.statusHistory) < MaxHistory
  /\ order' = [statusHistoryHook(order) EXCEPT
                 !.statusModified = FALSE, !.savedStatus = order.status]
  /\ orderTrack' = IF orderTrack.op \in {"updateStatus", "processRefund"} /\ ~orderTrack.saved
                   THEN [orderTrack EXCEPT !.saved = TRUE]
                   ELSE [NoOrderCall EXCEPT !.op = "save"]
  /\ UNCHANGED notOrder

NextOrder ==
  \/ \E st \in OrderStatuses, n \in Notes, a \in Admins : UpdateStatus(st, n, a)
  \/ \E amt \in RefundAmounts, r \in Reasons, a \in Admins : ProcessRefund(amt, r, a)
  \/ SaveOrder

\* ---------------------------------------------------------- order claims

\* the transitions of the documented state machine
ForwardSteps ==
  { <<"pending", "confirmed">>, <<"confirmed", "processing">>,
    <<"processing", "shipped">>, <<"shipped", "delivered">> }

\* C5: status changes follow pending -> confirmed -> processing -> shipped ->
\* delivered; cancelled is entered only from pending, confirmed or processing;
\* refunded is entered only from delivered and only through processRefund.
C5_StatusStateMachine ==
  (orderTrack.op \in {"updateStatus", "processRefund"} /\ order.status # orderTrack.from) =>
    \/ <<orderTrack.from, order.status>> \in ForwardSteps
    \/ /\ order.status = "cancelled"
       /\ orderTrack.from \in {"pending", "confirmed", "processing"}
    \/ /\ order.status = "refunded"
       /\ orderTrack.from = "delivered"
       /\ orderTrack.op = "processRefund"

\* C6: processRefund sets paymentStatus to refunded when amount >= total and to
\* partially_refunded otherwise, records amount, reason and processor, and
\* sets status to refunded whatever the prior status and paymentStatus were.
C6_ProcessRefund ==
  orderTrack.op = "processRefund" =>
    /\ order.paymentStatus =
         (IF orderTrack.amount >= order.total THEN "refunded" ELSE "partially_refunded")
    /\ order.refund = [amount |-> orderTrack.amount, reason |-> orderTrack.reason,
                       processedBy |-> orderTrack.by]
    /\ order.status = "refunded"

\* a refund of exactly the order total was processed on an order that was not
\* delivered
C6_Witness ==
  /\ orderTrack.op = "processRefund"
  /\ orderTrack.amount = order.total
  /\ orderTrack.from # "delivered"
  /\ order.paymentStatus = "refunded"

\* C7: updateStatus succeeds from every status: afterwards status is newStatus
\* and statusHistory is the previous history with {status, note, updatedBy}
\* appended.
C7_UpdateStatusUnconditional ==
  (orderTrack.op = "updateStatus" /\ ~orderTrack.saved) =>
    /\ order.status = orderTrack.newStatus
    /\ order.statusHistory =
         Append(orderTrack.histBefore,
                [status |-> orderTrack.newStatus, note |-> orderTrack.note,
                 updatedBy |-> orderTrack.by])

\* updateStatus has taken a refunded order back to pending
C7_Witness ==
  /\ orderTrack.op = "updateStatus"
  /\ ~orderTrack.saved
  /\ orderTrack.from = "refunded"
  /\ order.status = "pending"

\* C8: each persisted status change (updateStatus or processRefund, then save)
\* grows statusHistory by exactly one entry, whose status is the new status,
\* and keeps the earlier entries as they were.
C8_OneEntryPerChange ==
  (/\ orderTrack.op \in {"updateStatus", "processRefund"}
   /\ orderTrack.saved
   /\ order.status # orderTrack.from) =>
    /\ Len(order.statusHistory) = Len(orderTrack.histBefore) + 1
    /\ order.statusHistory[Len(order.statusHistory)].status = order.status
    /\ SubSeq(order.statusHistory, 1, Len(orderTrack.histBefore)) = orderTrack.histBefore

\* ========================================================== ORDER NUMBER ==

Creators == 1..MaxCreators

\* the decimal digits of n, most significant first (Number.prototype.toString)
RECURSIVE Digits(_)
Digits(n) == IF n < 10 THEN <<n>> ELSE Append(Digits(n \div 10), n % 10)

\* String.prototype.padStart(width, '0')
RECURSIVE PadStart(_, _)
PadStart(ds, width) == IF Len(ds) >= width THEN ds ELSE PadStart(<<0>> \o ds, width)

\* `ORD${y}${m}${d}${(count + 1).toString().padStart(4, '0')}`
OrderNumber(day, count) ==
  [prefix |-> "ORD", date |-> day, sequence |-> PadStart(Digits(count + 1), 4)]

\* a count that also takes in the orders whose number is being generated, as an
\* atomic reservation would
countDocumentsReserving(day) ==
  Cardinality({ o \in storedOrders : o.createdDay >= day })
  + Cardinality({ p \in Creators : creation[p].pc \in {"counted", "numbered"}
                                    /\ creation[p].day >= day })

\* countDocuments({createdAt: {$gte: today}}) on the Order collection
countDocuments(day) ==
  Cardinality({ o \in storedOrders : o.createdDay >= day })

NoNumber == [prefix |-> "none", date |-> 0, sequence |-> <<>>]

NewCreation == [pc |-> "new", day |-> 0, count |-> 0, seen |-> {}, orderNumber |-> NoNumber]

\* the hook starts on a new document: new Date() and the day's midnight
ReadDate(p) ==
  /\ creation[p].pc = "new"
  /\ creation' = [creation EXCEPT ![p].pc = "dated", ![p].day = today]
  /\ UNCHANGED <<today, storedOrders, notNumber>>

\* the awaited count query is answered from the collection as it is then
CountOrders(p) ==
  /\ creation[p].pc = "dated"
  /\ creation' = [creation EXCEPT
                    ![p].pc = "counted",
                    ![p].count = countDocuments(creation[p].day),
                    ![p].seen = { o.creator : o \in storedOrders }]
  /\ UNCHANGED <<today, storedOrders, notNumber>>

\* this.orderNumber = ... ; next()
AssignNumber(p) ==
  /\ creation[p].pc = "counted"
  /\ creation' = [creation EXCEPT
                    ![p].pc = "numbered",
                    ![p].orderNumber = OrderNumber(creation[p].day, creation[p].count)]
  /\ UNCHANGED <<today, storedOrders, notNumber>>

\* the insert: refused by the unique index on orderNumber when the number is taken
InsertOrder(p) ==
  /\ creation[p].pc = "numbered"
  /\ IF \E o \in storedOrders : o.orderNumber = creation[p].orderNumber
     THEN /\ creation' = [creation EXCEPT ![p].pc = "failed"]
          /\ UNCHANGED storedOrders
     ELSE /\ creation' = [creation EXCEPT ![p].pc = "stored"]
          /\ storedOrders' = storedOrders \cup
               { [creator |-> p, createdDay |-> creation[p].day,
                  orderNumber |-> creation[p].orderNumber] }
  /\ UNCHANGED <<today, notNumber>>

\* midnight passes
NextDay ==
  /\ today < MaxDay
  /\ today' = today + 1
  /\ UNCHANGED <<storedOrders, creation, notNumber>>

NextNumber ==
  \/ \E p \in Creators : ReadDate(p)
  \/ \E p \in Creators : CountOrders(p)
  \/ \E p \in Creators : AssignNumber(p)
  \/ \E p \in Creators : InsertOrder(p)
  \/ NextDay

\* --------------------------------------------------- order number claims

Numbered(p) == creation[p].pc \in {"numbered", "stored", "failed"}

ReviewIds == 1..MaxReviews
Ratings == {1, 2}

\* the $match / $group of updateRating: the approved reviews of the product
ApprovedReviews == { r \in ReviewIds : reviews[r].exists /\ reviews[r].status = "approved" }

RECURSIVE SumRatings(_)
SumRatings(rs) ==
  IF rs = {} THEN 0
  ELSE LET r == CHOOSE x \in rs : TRUE IN reviews[r].rating + SumRatings(rs \ {r})

\* Math.round(avg * 10) / 10, kept in tenths: round half up of 10 * sum / n
RoundedAverage10(sum, n) == (20 * sum + n) \div (2 * n)

\* the summary updateRating computes from the aggregation result
RatingSummary ==
  IF ApprovedReviews # {}
  THEN [average10 |-> RoundedAverage10(SumRatings(ApprovedReviews), Cardinality(ApprovedReviews)),
        count |-> Cardinality(ApprovedReviews)]
  ELSE [average10 |-> 0, count |-> 0]

NoReview == [exists |-> FALSE, status |-> "pending", rating |-> 1]

IdleSave == [pc |-> "idle", doc |-> NoReview, summary |-> [average10 |-> 0, count |-> 0],
             hooked |-> FALSE, alone |-> TRUE, raced |-> FALSE]

NoRatingWrite == [wrote |-> FALSE, computed |-> [average10 |-> 0, count |-> 0], raced |-> 0]

\* save() of review r carries an approval that is not in the store yet
ApprovalInFlight(r) ==
  /\ reviewSave[r].pc \in {"hook", "aggregated", "write"}
  /\ reviewSave[r].doc.status = "approved"
  /\ reviews[r].status # "approved"

OthersIdle(r) == \A q \in ReviewIds \ {r} : reviewSave[q].pc = "idle"

\* save() is called on the document doc of review r; the pre-save hook goes on
\* to updateRating when rating or status is modified
StartSave(r, doc, modified) ==
  /\ reviewSave[r].pc = "idle"
  /\ reviewSave' = [q \in ReviewIds |->
       IF q = r
       THEN [pc |-> IF modified THEN "hook" ELSE "write", doc |-> doc,
             summary |-> [average10 |-> 0, count |-> 0],
             hooked |-> modified, alone |-> OthersIdle(r), raced |-> FALSE]
       ELSE IF reviewSave[q].pc = "idle" THEN reviewSave[q]
       ELSE [reviewSave[q] EXCEPT !.alone = FALSE]]
  /\ UNCHANGED <<reviews, productRating, reviewDone, ratingTrack, notReview>>

\* a review is created: rating is set, status is the default pending
CreateReview(r, rating) ==
  /\ ~reviews[r].exists
  /\ StartSave(r, [exists |-> TRUE, status |-> "pending", rating |-> rating], TRUE)

\* reviewSchema.methods.approve
Approve(r) ==
  /\ reviews[r].exists
  /\ StartSave(r, [reviews[r] EXCEPT !.status = "approved"], reviews[r].status # "approved")

\* reviewSchema.methods.reject
Reject(r) ==
  /\ reviews[r].exists
  /\ StartSave(r, [reviews[r] EXCEPT !.status = "rejected"], reviews[r].status # "rejected")

\* updateRating: the aggregation runs over the stored reviews
Aggregate(r) ==
  /\ reviewSave[r].pc = "hook"
  /\ reviewSave' = [reviewSave EXCEPT
       ![r].pc = "aggregated",
       ![r].summary = RatingSummary,
       ![r].raced = /\ ApprovalInFlight(r)
                    /\ \E q \in ReviewIds \ {r} : ApprovalInFlight(q)]
  /\ UNCHANGED <<reviews, productRating, reviewDone, ratingTrack, notReview>>

\* a variant of this.save() in updateRating that detects the conflict and
\* writes the summary of the reviews stored now
PersistedSummaryFresh(r) == RatingSummary

\* this.save() in updateRating: the rating the product document carries is the
\* one set from the aggregation result; nothing compares it with the store
PersistedSummary(r) == reviewSave[r].summary

\* updateRating: the product is saved with the summary
SaveProductRating(r) ==
  /\ reviewSave[r].pc = "aggregated"
  /\ productRating' = PersistedSummary(r)
  /\ ratingTrack' = [ratingTrack EXCEPT !.wrote = TRUE, !.computed = reviewSave[r].summary]
  /\ reviewSave' = [reviewSave EXCEPT ![r].pc = "write",
                                      ![r].summary = IdleSave.summary]
  /\ UNCHANGED <<reviews, reviewDone, notReview>>

\* next(): the review document is written and save() completes
WriteReview(r) ==
  /\ reviewSave[r].pc = "write"
  /\ reviews' = [reviews EXCEPT ![r] = reviewSave[r].doc]
  /\ reviewDone' = [completed |-> TRUE, hooked |-> reviewSave[r].hooked,
                    alone |-> reviewSave[r].alone]
  /\ ratingTrack' = [ratingTrack EXCEPT !.raced =
       IF reviewSave[r].raced THEN Min(@ + 1, 2) ELSE 0]
  /\ reviewSave' = [reviewSave EXCEPT ![r] = IdleSave]
  /\ UNCHANGED <<productRating, notReview>>

NextReview ==
  \/ \E r \in ReviewIds, x \in Ratings : CreateReview(r, x)
  \/ \E r \in ReviewIds : Approve(r)
  \/ \E r \in ReviewIds : Reject(r)
  \/ \E r \in ReviewIds : Aggregate(r)
  \/ \E r \in ReviewIds : SaveProductRating(r)
  \/ \E r \in ReviewIds : WriteReview(r)

\* --------------------------------------------------------- review claims

\* C10: after a review save that changed rating or status has completed, the
\* product's rating.count is the number of stored approved reviews of the
\* product, the review just saved counted in its new state.
C10_CountMatchesApproved ==
  (/\ reviewDone.completed
   /\ reviewDone.hooked
   /\ reviewDone.alone
   /\ \A r \in ReviewIds : reviewSave[r].pc = "idle") =>
    productRating.count = Cardinality(ApprovedReviews)

\* C11: the rating the product carries is the summary the last writer computed
\* at its aggregation, whatever was written to the reviews since (last write
\* wins, no conflict is detected); two approvals that each aggregated before
\* the other's write leave a count that differs from the approved reviews.
C11_LastWriterWins ==
  ratingTrack.wrote => productRating = ratingTrack.computed

\* both approvals raced and completed, and the count is not the number of
\* approved reviews
C11_Witness ==
  /\ ratingTrack.raced >= 2
  /\ \A r \in ReviewIds : reviewSave[r].pc = "idle"
  /\ productRating = ratingTrack.computed
  /\ productRating.count # Cardinality(ApprovedReviews)

\* ============================================================== CATEGORY ==

CategoryIds == 1..MaxCategories

\* parent: null
NoParent == 0
\* an ObjectId that matches no stored category
GhostCategory == 99

\* the name a category is created with
CategoryName(c) == [text |-> "Cat", n |-> c]

\* slugify(name, {lower: true, strict: true}): the name in lower case
slugify(name) == [text |-> "cat", n |-> name.n]

NoCategory == [exists |-> FALSE, name |-> CategoryName(0), slug |-> slugify(CategoryName(0)),
               parent |-> NoParent, level |-> 0, ancestors |-> <<>>]

\* new Category({name}): the schema defaults; the hook sets the slug
NewCategory(c) ==
  [exists |-> TRUE, name |-> CategoryName(c), slug |-> slugify(CategoryName(c)),
   parent |-> NoParent, level |-> 0, ancestors |-> <<>>]

\* findById: the stored document, or none
findById(store, id) == IF id \in CategoryIds /\ store[id].exists THEN {id} ELSE {}

\* { _id: parent._id, name: parent.name, slug: parent.slug }
ParentSummary(store, id) == [_id |-> id, name |-> store[id].name, slug |-> store[id].slug]

\* a variant of the hook that takes the level of the parent as its own
ancestorsHookParentLevel(doc, store) ==
  IF doc.parent # NoParent
  THEN IF findById(store, doc.parent) # {}
       THEN [doc EXCEPT !.level = store[doc.parent].level,
                        !.ancestors = Append(store[doc.parent].ancestors,
                                             ParentSummary(store, doc.parent))]
       ELSE doc
  ELSE [doc EXCEPT !.level = 0, !.ancestors = <<>>]

\* pre('save'), "Update ancestors & level", when parent is modified
ancestorsHook(doc, store) ==
  IF doc.parent # NoParent
  THEN IF findById(store, doc.parent) # {}
       THEN [doc EXCEPT !.level = store[doc.parent].level + 1,
                        !.ancestors = Append(store[doc.parent].ancestors,
                                             ParentSummary(store, doc.parent))]
       ELSE doc
  ELSE [doc EXCEPT !.level = 0, !.ancestors = <<>>]

\* a variant of save() whose hook sets the level and keeps the ancestors
savedCategoryKeepsPath(doc, parent, store) ==
  LET set == [doc EXCEPT !.parent = parent]
  IN IF parent # doc.parent
     THEN [ancestorsHook(set, store) EXCEPT !.ancestors = doc.ancestors]
     ELSE set

\* category.parent = parent; category.save(): the document the save writes
savedCategory(doc, parent, store) ==
  LET set == [doc EXCEPT !.parent = parent]
  IN IF parent # doc.parent THEN ancestorsHook(set, store) ELSE set

\* a variant of save() that also rewrites the documents below the saved one
storeAfterSaveCascading(store, c, doc) ==
  [d \in CategoryIds |->
     IF d = c THEN doc
     ELSE IF store[d].exists /\ store[d].parent = c
     THEN [store[d] EXCEPT !.level = doc.level + 1,
                           !.ancestors = Append(doc.ancestors,
                                                [_id |-> c, name |-> doc.name, slug |-> doc.slug])]
     ELSE store[d]]

\* save() writes the one document
storeAfterSave(store, c, doc) == [store EXCEPT ![c] = doc]

\* the parent arguments callers pass: null, a stored category (the category
\* itself included) and an id that matches nothing
ParentArgs == {NoParent, GhostCategory} \cup { c \in CategoryIds : categories[c].exists }

\* the id the next created category gets
NextCategoryId == CHOOSE c \in CategoryIds :
                    /\ ~categories[c].exists
                    /\ \A d \in CategoryIds : d < c => categories[d].exists

\* Category.create({name, parent})
CreateCategory(parent) ==
  /\ \E c \in CategoryIds : ~categories[c].exists
  /\ LET c == NextCategoryId
         doc == savedCategory(NewCategory(c), parent, categories)
     IN /\ doc.level <= MaxLevel
        /\ categories' = storeAfterSave(categories, c, doc)
  /\ UNCHANGED <<movesLeft, notCategory>>

\* a handler loads category c, assigns parent and saves
SetParent(c, parent) ==
  /\ categories[c].exists
  /\ LET doc == savedCategory(categories[c], parent, categories)
     IN /\ doc.level <= MaxLevel
        /\ categories' = storeAfterSave(categories, c, doc)
  /\ movesLeft > 0
  /\ movesLeft' = movesLeft - 1
  /\ UNCHANGED notCategory

NextCategory ==
  \/ \E p \in ParentArgs : CreateCategory(p)
  \/ \E c \in CategoryIds : \E p \in ParentArgs : SetParent(c, p)

\* ------------------------------------------------------- category claims

\* category c is saved in this step with parent modified: a stored category
\* whose parent changes, or a category created with a parent
ParentModified(c) ==
  /\ categories'[c].exists
  /\ categories'[c].parent # categories[c].parent

\* C12: a save with a changed parent that is stored sets level to
\* parent.level + 1 and ancestors to parent.ancestors followed by the parent's
\* {_id, name, slug}; a save with parent cleared sets level 0 and no ancestors.
C12_ParentChangeSetsPath ==
  [][\A c \in CategoryIds :
       ParentModified(c) =>
         LET p == categories'[c].parent
         IN /\ (p \in CategoryIds /\ categories[p].exists) =>
                 /\ categories'[c].level = categories[p].level + 1
                 /\ categories'[c].ancestors =
                      categories[p].ancestors \o
                        << [_id |-> p, name |-> categories[p].name,
                            slug |-> categories[p].slug] >>
            /\ p = NoParent =>
                 /\ categories'[c].level = 0
                 /\ categories'[c].ancestors = <<>>]_vars

\* a category sits two levels down, under a stored parent, with the parent's
\* path followed by the parent
C12_Witness ==
  \E c \in CategoryIds :
    LET p == categories[c].parent
    IN /\ categories[c].exists
       /\ p \in CategoryIds \ {c}
       /\ categories[p].exists
       /\ categories[p].level >= 1
       /\ categories[c].level = categories[p].level + 1
       /\ categories[c].ancestors =
            categories[p].ancestors \o
              << [_id |-> p, name |-> categories[p].name, slug |-> categories[p].slug] >>

\* C13: every stored category has level = length(ancestors), after any
\* creations and parent changes, a parent id that matches nothing included.
C13_LevelIsPathLength ==
  \A c \in CategoryIds :
    categories[c].exists => categories[c].level = Len(categories[c].ancestors)

\* a category below the root whose parent was set to an id that matches nothing
C13_Witness ==
  \E c \in CategoryIds :
    /\ categories[c].exists
    /\ categories[c].parent = GhostCategory
    /\ categories[c].level >= 1
    /\ categories[c].level = Len(categories[c].ancestors)

\* ids of the categories reached by following parent references from category
\* c, root first; a reference that matches no stored category reaches nothing;
\* <<NoParent>> when the references lead to no root within fuel steps (a cycle)
RECURSIVE ParentChain(_, _)
ParentChain(c, fuel) ==
  LET p == categories[c].parent
  IN IF p = NoParent \/ findById(categories, p) = {} THEN <<>>
     ELSE IF fuel = 0 THEN <<NoParent>>
     ELSE LET up == ParentChain(p, fuel - 1)
          IN IF up = <<NoParent>> THEN <<NoParent>> ELSE Append(up, p)

\* the _id of each entry of ancestors
AncestorIds(c) == [i \in 1..Len(categories[c].ancestors) |-> categories[c].ancestors[i]._id]

\* C14: for every stored category, ancestors is the chain of categories reached
\* by following parent references, from the root down to the immediate parent.
C14_AncestorsIsParentChain ==
  \A c \in CategoryIds :
    categories[c].exists => AncestorIds(c) = ParentChain(c, MaxCategories)

\* C15: a save with a changed parent modifies only the saved category: level
\* and ancestors of every other stored category, its children and deeper
\* descendants included, are unchanged.
C15_OnlySavedCategoryChanges ==
  [][\A c \in CategoryIds :
       ParentModified(c) =>
         \A d \in CategoryIds \ {c} :
           /\ categories'[d].level = categories[d].level
           /\ categories'[d].ancestors = categories[d].ancestors]_vars

\* a category with a child and a grandchild was moved: the child still carries
\* the path it had
C15_Witness ==
  \E c, d, e \in CategoryIds :
    /\ categories[c].exists /\ categories[d].exists /\ categories[e].exists
    /\ categories[d].parent = c
    /\ categories[e].parent = d
    /\ categories[c].parent # NoParent
    /\ categories[c].level >= 1
    /\ categories[d].level = 1
    /\ categories[d].ancestors = << [_id |-> c, name |-> categories[c].name,
                                     slug |-> categories[c].slug] >>
    /\ categories[e].level = 2

\* ================================================================== USER ==

Requests == 1..MaxRequests

\* lockUntil: undefined
NoLock == 0

\* a new account: loginAttempts default 0, lockUntil not set
NewUser == [loginAttempts |-> 0, lockUntil |-> NoLock]

IdleRequest == [pc |-> "idle", this |-> NewUser]

NoLoginTrack ==
  [failed |-> 0, fifthAt |-> 0, sequential |-> TRUE, expired |-> FALSE]

\* userSchema.methods.isLocked
isLocked(this, t) == this.lockUntil # NoLock /\ this.lockUntil > t

\* a variant of incLoginAttempts that locks when the count passes the threshold
incLoginAttemptsAfterThreshold(this, stored, t) ==
  IF this.lockUntil # NoLock /\ this.lockUntil < t
  THEN [stored EXCEPT !.lockUntil = NoLock, !.loginAttempts = 1]
  ELSE IF this.loginAttempts + 1 > LockThreshold /\ ~isLocked(this, t)
  THEN [stored EXCEPT !.loginAttempts = @ + 1, !.lockUntil = t + LockHours]
  ELSE [stored EXCEPT !.loginAttempts = @ + 1]

\* userSchema.methods.incLoginAttempts: the update is computed from the loaded
\* document this and applied by updateOne to the stored one
incLoginAttempts(this, stored, t) ==
  IF this.lockUntil # NoLock /\ this.lockUntil < t
  THEN [stored EXCEPT !.lockUntil = NoLock, !.loginAttempts = 1]
  ELSE IF this.loginAttempts + 1 >= LockThreshold /\ ~isLocked(this, t)
  THEN [stored EXCEPT !.loginAttempts = @ + 1, !.lockUntil = t + LockHours]
  ELSE [stored EXCEPT !.loginAttempts = @ + 1]

\* a failed-login request loads the user
LoadUser(p) ==
  /\ request[p].pc = "idle"
  /\ loginTrack.failed
       + Cardinality({ q \in Requests : request[q].pc = "loaded" }) < MaxFailed
  /\ request' = [request EXCEPT ![p] = [pc |-> "loaded", this |-> userDoc]]
  /\ loginTrack' = [loginTrack EXCEPT !.sequential =
       @ /\ \A q \in Requests : request[q].pc = "idle"]
  /\ UNCHANGED <<userDoc, now, notUser>>

\* the request calls incLoginAttempts on the document it loaded
IncLoginAttempts(p) ==
  /\ request[p].pc = "loaded"
  /\ userDoc' = incLoginAttempts(request[p].this, userDoc, now)
  /\ request' = [request EXCEPT ![p] = IdleRequest]
  /\ loginTrack' = [loginTrack EXCEPT
       !.failed = @ + 1,
       !.fifthAt = IF loginTrack.failed + 1 = LockThreshold THEN now ELSE @,
       !.expired = @ \/ (/\ request[p].this.lockUntil # NoLock
                         /\ request[p].this.lockUntil < now)]
  /\ UNCHANGED <<now, notUser>>

\* an hour passes
Tick ==
  /\ now < MaxTime
  /\ now' = now + 1
  /\ UNCHANGED <<userDoc, request, loginTrack, notUser>>

NextUser ==
  \/ \E p \in Requests : LoadUser(p)
  \/ \E p \in Requests : IncLoginAttempts(p)
  \/ Tick

\* ----------------------------------------------------------- user claims

\* C16: with failed logins handled one at a time on an account that starts
\* unlocked with loginAttempts 0, the account is not locked after the first
\* four, the fifth sets lockUntil to two hours after it, and isLocked is true
\* exactly while lockUntil is in the future.
C16_LockedByFifthAttempt ==
  loginTrack.sequential =>
    /\ loginTrack.failed < LockThreshold =>
         /\ userDoc.loginAttempts = loginTrack.failed
         /\ userDoc.lockUntil = NoLock
         /\ ~isLocked(userDoc, now)
    /\ loginTrack.failed = LockThreshold =>
         /\ userDoc.lockUntil = loginTrack.fifthAt + LockHours
         /\ isLocked(userDoc, now) <=> now < loginTrack.fifthAt + LockHours
    /\ isLocked(userDoc, now) <=> (userDoc.lockUntil # NoLock /\ userDoc.lockUntil > now)

\* the fifth failed login, one at a time, came an hour ago and the account is
\* still locked
C16_Witness ==
  /\ loginTrack.sequential
  /\ loginTrack.failed = LockThreshold
  /\ now = loginTrack.fifthAt + 1
  /\ loginTrack.fifthAt >= 1
  /\ isLocked(userDoc, now)

\* C23: under any interleaving of failed-login requests for one user, each
\* loading the user and then calling incLoginAttempts, whenever the stored
\* loginAttempts is 5 or more and no call has cleared an expired lock, the
\* stored lockUntil is set.
C23_FiveAttemptsLocked ==
  (userDoc.loginAttempts >= LockThreshold /\ ~loginTrack.expired) =>
    userDoc.lockUntil # NoLock

\* =============================================================== HELPFUL ==

\* the users who may vote on the review
VoterIds == 1..MaxVoters

\* reviewSchema.helpful: count defaults to 0, users to the empty array
NewHelpful == [count |-> 0, users |-> <<>>]

NoVote == [op |-> "none", userId |-> 0, before |-> NewHelpful]

\* Array.prototype.indexOf: the first position holding x, counted from 0,
\* -1 when no position holds it
indexOf(arr, x) ==
  IF \E i \in 1..Len(arr) : arr[i] = x
  THEN (CHOOSE i \in 1..Len(arr) :
          arr[i] = x /\ \A j \in 1..(i - 1) : arr[j] # x) - 1
  ELSE -1

\* Array.prototype.includes
includes(arr, x) == indexOf(arr, x) # -1

\* arr.splice(index, 1): the array without the entry at index (from 0)
splice(arr, index) ==
  [i \in 1..(Len(arr) - 1) |-> IF i <= index THEN arr[i] ELSE arr[i + 1]]

\* markHelpful that pushes and counts whether or not the user has voted
markHelpfulAlways(h, userId) ==
  [count |-> h.count + 1, users |-> Append(h.users, userId)]

\* reviewSchema.methods.markHelpful
markHelpful(h, userId) ==
  IF ~includes(h.users, userId)
  THEN [count |-> h.count + 1, users |-> Append(h.users, userId)]
  ELSE h

\* reviewSchema.methods.unmarkHelpful
unmarkHelpful(h, userId) ==
  LET index == indexOf(h.users, userId)
  IN IF index > -1
     THEN [count |-> Max(0, h.count - 1), users |-> splice(h.users, index)]
     ELSE h

\* review.markHelpful(userId), its save() included
MarkHelpful(userId) ==
  /\ helpful' = markHelpful(helpful, userId)
  /\ helpfulTrack' = [op |-> "markHelpful", userId |-> userId,
                      before |-> helpful]
  /\ UNCHANGED notHelpful

\* review.unmarkHelpful(userId), its save() included
UnmarkHelpful(userId) ==
  /\ helpful' = unmarkHelpful(helpful, userId)
  /\ helpfulTrack' = [op |-> "unmarkHelpful", userId |-> userId,
                      before |-> helpful]
  /\ UNCHANGED notHelpful

NextHelpful ==
  \/ \E u \in VoterIds : MarkHelpful(u)
  \/ \E u \in VoterIds : UnmarkHelpful(u)

\* C22: after any sequence of markHelpful and unmarkHelpful calls on a review,
\* helpful.users holds each user id at most once and helpful.count is the
\* number of its entries; markHelpful by a user who has voted, and
\* unmarkHelpful by a user who has not, change neither.
C22_VotesDeduplicated ==
  /\ \A i, j \in 1..Len(helpful.users) :
       helpful.users[i] = helpful.users[j] => i = j
  /\ helpful.count = Len(helpful.users)
  /\ (/\ helpfulTrack.op = "markHelpful"
      /\ \E i \in 1..Len(helpfulTrack.before.users) :
           helpfulTrack.before.users[i] = helpfulTrack.userId) =>
       helpful = helpfulTrack.before
  /\ (/\ helpfulTrack.op = "unmarkHelpful"
      /\ \A i \in 1..Len(helpfulTrack.before.users) :
           helpfulTrack.before.users[i] # helpfulTrack.userId) =>
       helpful = helpfulTrack.before

\* a user who had voted, among others, has called markHelpful again
C22_Witness ==
  /\ helpfulTrack.op = "markHelpful"
  /\ Len(helpfulTrack.before.users) >= 2
  /\ \E i \in 1..Len(helpfulTrack.before.users) :
       helpfulTrack.before.users[i] = helpfulTrack.userId
  /\ helpful.count = 2

\* ========================================================= SPECIFICATIONS ==

\* one visitor's cart calls; the other aggregates stay as created
InitCart ==
  /\ \E u \in UserCartChoices : carts = StartCarts(u)
  /\ loggedIn = FALSE
  /\ callsLeft = MaxCallsAfterLogin
  /\ cartError = "none"
  /\ addTrack = NoTrack
  /\ lastMerge = NoMerge
  /\ lastUpdate = "none"
  /\ order = NewOrder("pending")
  /\ orderTrack = NoOrderCall
  /\ today = 1
  /\ storedOrders = {}
  /\ creation = [p \in Creators |-> NewCreation]
  /\ reviews = [r \in ReviewIds |-> NoReview]
  /\ productRating = [average10 |-> 0, count |-> 0]
  /\ reviewSave = [r \in ReviewIds |-> IdleSave]
  /\ reviewDone = [completed |-> FALSE, hooked |-> FALSE, alone |-> TRUE]
  /\ ratingTrack = NoRatingWrite
  /\ categories = [c \in CategoryIds |-> NoCategory]
  /\ movesLeft = MaxMoves
  /\ userDoc = NewUser
  /\ now = 0
  /\ request = [p \in Requests |-> IdleRequest]
  /\ loginTrack = NoLoginTrack
  /\ helpful = NewHelpful
  /\ helpfulTrack = NoVote

SpecCart == InitCart /\ [][NextCart]_vars

\* the calls on one order
InitOrder ==
  /\ \E pay \in {"pending", "paid"} : order = NewOrder(pay)
  /\ orderTrack = NoOrderCall
  /\ carts = StartCarts(NewCart(FALSE, "u1", NoSessionId, 0, 0))
  /\ loggedIn = FALSE
  /\ callsLeft = MaxCallsAfterLogin
  /\ cartError = "none"
  /\ addTrack = NoTrack
  /\ lastMerge = NoMerge
  /\ lastUpdate = "none"
  /\ today = 1
  /\ storedOrders = {}
  /\ creation = [p \in Creators |-> NewCreation]
  /\ reviews = [r \in ReviewIds |-> NoReview]
  /\ productRating = [average10 |-> 0, count |-> 0]
  /\ reviewSave = [r \in ReviewIds |-> IdleSave]
  /\ reviewDone = [completed |-> FALSE, hooked |-> FALSE, alone |-> TRUE]
  /\ ratingTrack = NoRatingWrite
  /\ categories = [c \in CategoryIds |-> NoCategory]
  /\ movesLeft = MaxMoves
  /\ userDoc = NewUser
  /\ now = 0
  /\ request = [p \in Requests |-> IdleRequest]
  /\ loginTrack = NoLoginTrack
  /\ helpful = NewHelpful
  /\ helpfulTrack = NoVote

SpecOrder == InitOrder /\ [][NextOrder]_vars

\* concurrent order creations on an empty Order collection
InitNumber ==
  /\ today = 1
  /\ storedOrders = {}
  /\ creation = [p \in Creators |-> NewCreation]
  /\ carts = StartCarts(NewCart(FALSE, "u1", NoSessionId, 0, 0))
  /\ loggedIn = FALSE
  /\ callsLeft = MaxCallsAfterLogin
  /\ cartError = "none"
  /\ addTrack = NoTrack
  /\ lastMerge = NoMerge
  /\ lastUpdate = "none"
  /\ order = NewOrder("pending")
  /\ orderTrack = NoOrderCall
  /\ reviews = [r \in ReviewIds |-> NoReview]
  /\ productRating = [average10 |-> 0, count |-> 0]
  /\ reviewSave = [r \in ReviewIds |-> IdleSave]
  /\ reviewDone = [completed |-> FALSE, hooked |-> FALSE, alone |-> TRUE]
  /\ ratingTrack = NoRatingWrite
  /\ categories = [c \in CategoryIds |-> NoCategory]
  /\ movesLeft = MaxMoves
  /\ userDoc = NewUser
  /\ now = 0
  /\ request = [p \in Requests |-> IdleRequest]
  /\ loginTrack = NoLoginTrack
  /\ helpful = NewHelpful
  /\ helpfulTrack = NoVote

SpecNumber == InitNumber /\ [][NextNumber]_vars

\* review saves on a product that has no review yet
InitReview ==
  /\ reviews = [r \in ReviewIds |-> NoReview]
  /\ productRating = [average10 |-> 0, count |-> 0]
  /\ reviewSave = [r \in ReviewIds |-> IdleSave]
  /\ reviewDone = [completed |-> FALSE, hooked |-> FALSE, alone |-> TRUE]
  /\ ratingTrack = NoRatingWrite
  /\ categories = [c \in CategoryIds |-> NoCategory]
  /\ movesLeft = MaxMoves
  /\ userDoc = NewUser
  /\ now = 0
  /\ request = [p \in Requests |-> IdleRequest]
  /\ loginTrack = NoLoginTrack
  /\ helpful = NewHelpful
  /\ helpfulTrack = NoVote
  /\ carts = StartCarts(NewCart(FALSE, "u1", NoSessionId, 0, 0))
  /\ loggedIn = FALSE
  /\ callsLeft = MaxCallsAfterLogin
  /\ cartError = "none"
  /\ addTrack = NoTrack
  /\ lastMerge = NoMerge
  /\ lastUpdate = "none"
  /\ order = NewOrder("pending")
  /\ orderTrack = NoOrderCall
  /\ today = 1
  /\ storedOrders = {}
  /\ creation = [p \in Creators |-> NewCreation]

SpecReview == InitReview /\ [][NextReview]_vars

\* every aggregate, interleaved
Init ==
  /\ \E u \in UserCartChoices : carts = StartCarts(u)
  /\ loggedIn = FALSE
  /\ callsLeft = MaxCallsAfterLogin
  /\ cartError = "none"
  /\ addTrack = NoTrack
  /\ lastMerge = NoMerge
  /\ lastUpdate = "none"
  /\ \E pay \in {"pending", "paid"} : order = NewOrder(pay)
  /\ orderTrack = NoOrderCall
  /\ today = 1
  /\ storedOrders = {}
  /\ creation = [p \in Creators |-> NewCreation]
  /\ reviews = [r \in ReviewIds |-> NoReview]
  /\ productRating = [average10 |-> 0, count |-> 0]
  /\ reviewSave = [r \in ReviewIds |-> IdleSave]
  /\ reviewDone = [completed |-> FALSE, hooked |-> FALSE, alone |-> TRUE]
  /\ ratingTrack = NoRatingWrite
  /\ categories = [c \in CategoryIds |-> NoCategory]
  /\ movesLeft = MaxMoves
  /\ userDoc = NewUser
  /\ now = 0
  /\ request = [p \in Requests |-> IdleRequest]
  /\ loginTrack = NoLoginTrack
  /\ helpful = NewHelpful
  /\ helpfulTrack = NoVote

\* category saves on an empty Category collection
InitCategory ==
  /\ categories = [c \in CategoryIds |-> NoCategory]
  /\ movesLeft = MaxMoves
  /\ userDoc = NewUser
  /\ now = 0
  /\ request = [p \in Requests |-> IdleRequest]
  /\ loginTrack = NoLoginTrack
  /\ helpful = NewHelpful
  /\ helpfulTrack = NoVote
  /\ carts = StartCarts(NewCart(FALSE, "u1", NoSessionId, 0, 0))
  /\ loggedIn = FALSE
  /\ callsLeft = MaxCallsAfterLogin
  /\ cartError = "none"
  /\ addTrack = NoTrack
  /\ lastMerge = NoMerge
  /\ lastUpdate = "none"
  /\ order = NewOrder("pending")
  /\ orderTrack = NoOrderCall
  /\ today = 1
  /\ storedOrders = {}
  /\ creation = [p \in Creators |-> NewCreation]
  /\ reviews = [r \in ReviewIds |-> NoReview]
  /\ productRating = [average10 |-> 0, count |-> 0]
  /\ reviewSave = [r \in ReviewIds |-> IdleSave]
  /\ reviewDone = [completed |-> FALSE, hooked |-> FALSE, alone |-> TRUE]
  /\ ratingTrack = NoRatingWrite

SpecCategory == InitCategory /\ [][NextCategory]_vars

\* failed logins on a new account
InitUser ==
  /\ userDoc = NewUser
  /\ now = 0
  /\ request = [p \in Requests |-> IdleRequest]
  /\ loginTrack = NoLoginTrack
  /\ helpful = NewHelpful
  /\ helpfulTrack = NoVote
  /\ carts = StartCarts(NewCart(FALSE, "u1", NoSessionId, 0, 0))
  /\ loggedIn = FALSE
  /\ callsLeft = MaxCallsAfterLogin
  /\ cartError = "none"
  /\ addTrack = NoTrack
  /\ lastMerge = NoMerge
  /\ lastUpdate = "none"
  /\ order = NewOrder("pending")
  /\ orderTrack = NoOrderCall
  /\ today = 1
  /\ storedOrders = {}
  /\ creation = [p \in Creators |-> NewCreation]
  /\ reviews = [r \in ReviewIds |-> NoReview]
  /\ productRating = [average10 |-> 0, count |-> 0]
  /\ reviewSave = [r \in ReviewIds |-> IdleSave]
  /\ reviewDone = [completed |-> FALSE, hooked |-> FALSE, alone |-> TRUE]
  /\ ratingTrack = NoRatingWrite
  /\ categories = [c \in CategoryIds |-> NoCategory]
  /\ movesLeft = MaxMoves

SpecUser == InitUser /\ [][NextUser]_vars

\* the vote calls on one review
InitHelpful ==
  /\ helpful = NewHelpful
  /\ helpfulTrack = NoVote
  /\ carts = StartCarts(NewCart(FALSE, "u1", NoSessionId, 0, 0))
  /\ loggedIn = FALSE
  /\ callsLeft = MaxCallsAfterLogin
  /\ cartError = "none"
  /\ addTrack = NoTrack
  /\ lastMerge = NoMerge
  /\ lastUpdate = "none"
  /\ order = NewOrder("pending")
  /\ orderTrack = NoOrderCall
  /\ today = 1
  /\ storedOrders = {}
  /\ creation = [p \in Creators |-> NewCreation]
  /\ reviews = [r \in ReviewIds |-> NoReview]
  /\ productRating = [average10 |-> 0, count |-> 0]
  /\ reviewSave = [r \in ReviewIds |-> IdleSave]
  /\ reviewDone = [completed |-> FALSE, hooked |-> FALSE, alone |-> TRUE]
  /\ ratingTrack = NoRatingWrite
  /\ categories = [c \in CategoryIds |-> NoCategory]
  /\ movesLeft = MaxMoves
  /\ userDoc = NewUser
  /\ now = 0
  /\ request = [p \in Requests |-> IdleRequest]
  /\ loginTrack = NoLoginTrack

SpecHelpful == InitHelpful /\ [][NextHelpful]_vars

Next ==
  \/ NextCart \/ NextOrder \/ NextNumber \/ NextReview \/ NextCategory
  \/ NextUser \/ NextHelpful

Spec == Init /\ [][Next]_vars

====
